---- MODULE Spec2Model ----
(***************************************************************************)
(* Record store and task lifecycle of mrt-fe-review-washer.                *)
(*                                                                         *)
(* The two collections of <dataDir> ("tasks" and "reviews", one JSON file  *)
(* per record) are the functions `tasks` and `reviews` from identifier to  *)
(* file content.  Every MCP tool handler is an operator from the state it  *)
(* is called in to the set of its outcomes (one per way its clock readings *)
(* and random bytes can fall): the collections it leaves, the clock, what  *)
(* it answers and how many files it wrote; the actions apply the handlers. *)
(* Calls that overlap are in `calls`, each at the await it has reached; a   *)
(* step runs one of them up to its next await.                             *)
(* `tasks` and `reviews` are the collections of the data directory under   *)
(* the directory the server was started in; `cachedRootsPath` is the       *)
(* module variable of env.ts and `rootsTasks` the tasks collection of the  *)
(* data directory under the workspace root the client reports.             *)
(* The clock `now` moves when a handler reads it: a reading is the last    *)
(* one or one millisecond later.                                           *)
(***************************************************************************)
EXTENDS Integers, Sequences, FiniteSets, TLC

VARIABLES now, tasks, reviews, written, calls, cachedRootsPath, rootsTasks

vars == <<now, tasks, reviews, written, calls, cachedRootsPath, rootsTasks>>

(***************************************************************************)
(* Bounds of the model.                                                    *)
(***************************************************************************)
\* the clock runs over the milliseconds 0..MaxTime
MaxTime == 1
\* the calls of a run change at most MaxWrites files in all
MaxWrites == 3
\* a review carries at most MaxFindings findings
MaxFindings == 2
\* List is called with a limit of 1..MaxLimit
MaxLimit == 2
\* at most MaxCalls tool calls are in flight at a time
MaxCalls == 2

\* the values crypto.randomBytes(3).toString("hex") is drawn from
Suffixes == {"a1b2c3", "d4e5f6"}

(***************************************************************************)
(* JavaScript objects and JSON.                                            *)
(*                                                                         *)
(* An object is a function from its own keys to values.  A key can be      *)
(* present with the value undefined; JSON.stringify leaves such members    *)
(* out, so the file (and what JSON.parse gives back) does not have them.   *)
(***************************************************************************)
NumKeys == {"created_at", "updated_at", "completed_at", "startLine", "endLine",
            "source_finding_index"}

IdKeys == {"id", "source_review_id"}

ObjKeys == {"target", "criteria_feedback"}

ArrayKeys == {"findings"}

\* the value `undefined` as a member of key k (one per kind of value, so that a
\* member is only ever compared with a value of its own kind)
Undefined(k) ==
    IF k \in NumKeys THEN -1
    ELSE IF k \in IdKeys THEN <<>>
    ELSE IF k \in ObjKeys THEN [undefined |-> TRUE]
    ELSE IF k \in ArrayKeys THEN <<[undefined |-> TRUE]>>
    ELSE "undefined"

\* obj[k] in JavaScript: undefined when the key is absent
Get(obj, k) == IF k \in DOMAIN obj THEN obj[k] ELSE Undefined(k)

\* { ...a, ...b }
Spread(a, b) == [k \in (DOMAIN a) \cup (DOMAIN b) |-> IF k \in DOMAIN b THEN b[k] ELSE a[k]]

\* JSON.parse(JSON.stringify(obj)) for a flat object: members that are undefined are dropped
JSONstringify(obj) == [k \in {j \in DOMAIN obj : obj[j] # Undefined(j)} |-> obj[k]]

\* the same for a review, whose findings are objects themselves
JSONstringifyReview(obj) ==
    LET flat == JSONstringify([k \in (DOMAIN obj) \ {"findings"} |-> obj[k]])
    IN  IF "findings" \in DOMAIN obj
        THEN Spread(flat, [findings |-> [i \in 1..Len(obj.findings) |-> JSONstringify(obj.findings[i])]])
        ELSE flat

\* the content of a file of n bytes that JSON.parse rejects (SyntaxError): an empty
\* file, or the text of a record that is cut off or followed by other bytes
Garbage(n) == [malformed |-> TRUE, size |-> n]

\* JSON.parse(txt) returns
IsJSON(content) == "malformed" \notin DOMAIN content

\* fs.writeFile(<dir>/<id>.json, text): creates the file or replaces its content
writeFile(store, id, content) ==
    [i \in (DOMAIN store) \cup {id} |-> IF i = id THEN content ELSE store[i]]

\* fs.unlink(<dir>/<id>.json)
unlink(store, id) == [i \in (DOMAIN store) \ {id} |-> store[i]]

\* the bytes of the value of member k in the text of JSON.stringify(obj, null, 2):
\* an ISO timestamp and an identifier are quoted strings of fixed length, a line
\* number or index one digit, any other string itself in quotes
ValueLen(k, v) ==
    IF k \in {"created_at", "updated_at", "completed_at"} THEN 26
    ELSE IF k = "id" THEN 38
    ELSE IF k = "source_review_id" THEN 37
    ELSE IF k \in NumKeys THEN 1
    ELSE Len(v) + 2

\* the bytes of the members ks of obj in that text, each on a line of its own:
\* two spaces, the quoted key, colon, space, the value, comma or line end
RECURSIVE MembersLen(_, _)
MembersLen(obj, ks) ==
    IF ks = {} THEN 0
    ELSE LET k == CHOOSE j \in ks : TRUE
         IN  Len(k) + 8 + ValueLen(k, obj[k]) + MembersLen(obj, ks \ {k})

\* the length in bytes of a file
Size(content) ==
    IF IsJSON(content) THEN MembersLen(content, DOMAIN content) + 2 ELSE content.size

\* fs.open(<dir>/<id>.json, "w"): creates the file or truncates it to no bytes
open(store, id) == writeFile(store, id, Garbage(0))

\* filehandle.write(text) from position 0 through a handle opened with "w": the
\* bytes replace the first bytes of the file; bytes another handle wrote beyond
\* them since the truncation stay, and the file is then no JSON text
write(store, id, text) ==
    IF id \in DOMAIN store /\ Size(store[id]) > Size(text)
    THEN writeFile(store, id, Garbage(Size(store[id])))
    ELSE writeFile(store, id, text)

(***************************************************************************)
(* Clock and identifiers.                                                  *)
(***************************************************************************)
\* what nowIso() can return when the clock last showed t: the same millisecond or the next
nowIso(t) == {u \in t..(t + 1) : u <= MaxTime}

\* `task_${nowIso().replace(/[:.]/g, "-")}_${crypto.randomBytes(3).toString("hex")}`
newTaskId(t, sfx) == <<"task", t, sfx>>

\* `rev_${nowIso().replace(/[:.]/g, "-")}_${crypto.randomBytes(3).toString("hex")}`
newReviewId(t, sfx) == <<"rev", t, sfx>>

TaskIds == {newTaskId(t, s) : t \in 0..MaxTime, s \in Suffixes}

ReviewIds == {newReviewId(t, s) : t \in 0..MaxTime, s \in Suffixes}

TaskStatus == {"pending", "in_progress", "completed", "cancelled"}

(***************************************************************************)
(* taskStorage.ts                                                          *)
(***************************************************************************)
\* faulty saveTask: the file gets the caller's fields without the assigned ones
saveTask_writesInput(store, task, t1, sfx, t2) ==
    LET id == newTaskId(t1, sfx)
        full == Spread([id |-> id, created_at |-> t2, updated_at |-> t2], task)
    IN  [store |-> writeFile(store, id, JSONstringify(task)), ret |-> full]

\* saveTask: the id is made at clock reading t1, the timestamps at t2
saveTask(store, task, t1, sfx, t2) ==
    LET id == newTaskId(t1, sfx)
        full == Spread([id |-> id, created_at |-> t2, updated_at |-> t2], task)
    IN  [store |-> writeFile(store, id, JSONstringify(full)), ret |-> full]

\* getTask: the parsed content of the file (the caller has checked the file exists)
getTask(store, id) == store[id]

\* faulty updateTask: the stored record spread over the updates, { ...updates, ...existing }
updateTask_spreadReversed(store, id, updates, t) ==
    LET existing == getTask(store, id)
        updated == Spread(Spread(updates, existing), [updated_at |-> t])
    IN  [store |-> writeFile(store, id, JSONstringify(updated)), ret |-> updated]

\* faulty updateTask: the merge is written without a fresh updated_at
updateTask_keepsUpdatedAt(store, id, updates, t) ==
    LET existing == getTask(store, id)
        updated == Spread(existing, updates)
    IN  [store |-> writeFile(store, id, JSONstringify(updated)), ret |-> updated]

\* updateTask: read, shallow merge, fresh updated_at, full rewrite
updateTask(store, id, updates, t) ==
    LET existing == getTask(store, id)
        updated == Spread(Spread(existing, updates), [updated_at |-> t])
    IN  [store |-> writeFile(store, id, JSONstringify(updated)), ret |-> updated]

\* faulty updateTaskStatus: the status is left out of the updates
updateTaskStatus_dropsStatus(store, id, status, extra, t) ==
    updateTask(store, id, extra, t)

\* updateTaskStatus: updateTask(dataDir, id, { status, ...extra })
updateTaskStatus(store, id, status, extra, t) ==
    updateTask(store, id, Spread([status |-> status], extra), t)

\* faulty deleteTask: the file is not removed
deleteTask_keepsFile(store, id) == store

\* deleteTask
deleteTask(store, id) == unlink(store, id)

\* the place of a random suffix in the order of file names
SuffixRank(sfx) == IF sfx = "a1b2c3" THEN 1 ELSE 2

\* a.localeCompare(b) for the file names of identifiers a and b: the timestamp part
\* decides, then the random suffix
localeCompare(a, b) ==
    IF a[2] < b[2] THEN -1
    ELSE IF a[2] > b[2] THEN 1
    ELSE IF SuffixRank(a[3]) < SuffixRank(b[3]) THEN -1
    ELSE IF SuffixRank(a[3]) > SuffixRank(b[3]) THEN 1
    ELSE 0

\* faulty sort, files.sort((a, b) => a.localeCompare(b)): oldest first
RECURSIVE sortAscending(_)
sortAscending(files) ==
    IF files = {} THEN <<>>
    ELSE LET bottom == CHOOSE a \in files : \A b \in files : localeCompare(a, b) <= 0
         IN  <<bottom>> \o sortAscending(files \ {bottom})

\* files.sort((a, b) => b.localeCompare(a)): newest first
RECURSIVE sortDescending(_)
sortDescending(files) ==
    IF files = {} THEN <<>>
    ELSE LET top == CHOOSE a \in files : \A b \in files : localeCompare(b, a) <= 0
         IN  <<top>> \o sortDescending(files \ {top})

\* options.status of a List without a status filter
NoStatus == Undefined("status")

\* options.limit of a List without a limit (0 and undefined are both falsy)
NoLimit == 0

\* faulty scan of listTasks: the limit is never looked at
RECURSIVE listTasksLoop_noLimit(_, _, _, _, _)
listTasksLoop_noLimit(store, files, status, limit, out) ==
    IF files = <<>> THEN [err |-> "none", out |-> out]
    ELSE LET content == store[Head(files)]
         IN  IF ~IsJSON(content) THEN [err |-> "SyntaxError", out |-> out]
             ELSE IF status # NoStatus /\ content.status # status
             THEN listTasksLoop_noLimit(store, Tail(files), status, limit, out)
             ELSE listTasksLoop_noLimit(store, Tail(files), status, limit, Append(out, content))

\* faulty scan of listTasks: a file JSON.parse rejects is passed over
RECURSIVE listTasksLoop_skipsMalformed(_, _, _, _, _)
listTasksLoop_skipsMalformed(store, files, status, limit, out) ==
    IF files = <<>> THEN [err |-> "none", out |-> out]
    ELSE LET content == store[Head(files)]
         IN  IF ~IsJSON(content) \/ (status # NoStatus /\ content.status # status)
             THEN listTasksLoop_skipsMalformed(store, Tail(files), status, limit, out)
             ELSE LET pushed == Append(out, content)
                  IN  IF limit # NoLimit /\ Len(pushed) >= limit
                      THEN [err |-> "none", out |-> pushed]
                      ELSE listTasksLoop_skipsMalformed(store, Tail(files), status, limit, pushed)

\* the scan of listTasks over the sorted file names: read and parse, filter, push,
\* stop at the limit; a file JSON.parse rejects ends the scan with its SyntaxError
RECURSIVE listTasksLoop(_, _, _, _, _)
listTasksLoop(store, files, status, limit, out) ==
    IF files = <<>> THEN [err |-> "none", out |-> out]
    ELSE LET content == store[Head(files)]
         IN  IF ~IsJSON(content) THEN [err |-> "SyntaxError", out |-> out]
             ELSE IF status # NoStatus /\ content.status # status
             THEN listTasksLoop(store, Tail(files), status, limit, out)
             ELSE LET pushed == Append(out, content)
                  IN  IF limit # NoLimit /\ Len(pushed) >= limit
                      THEN [err |-> "none", out |-> pushed]
                      ELSE listTasksLoop(store, Tail(files), status, limit, pushed)

\* faulty listTasks: the limit cuts the file names before the status filter sees them
listTasks_slicesFirst(store, status, limit) ==
    LET files == sortDescending(DOMAIN store)
        n == IF limit = NoLimit \/ Len(files) < limit THEN Len(files) ELSE limit
    IN  listTasksLoop(store, SubSeq(files, 1, n), status, NoLimit, <<>>)

\* listTasks
listTasks(store, status, limit) ==
    listTasksLoop(store, sortDescending(DOMAIN store), status, limit, <<>>)

\* faulty getTaskStats: the list it counts is cut at one record
getTaskStats_capped(store) ==
    LET all == listTasks(store, NoStatus, 1)
    IN  [err |-> all.err,
         stats |-> [k \in TaskStatus \cup {"total"} |->
                       IF k = "total" THEN Len(all.out)
                       ELSE Cardinality({i \in 1..Len(all.out) : all.out[i].status = k})]]

\* getTaskStats: listTasks without options, its length and its records counted by status
getTaskStats(store) ==
    LET all == listTasks(store, NoStatus, NoLimit)
    IN  [err |-> all.err,
         stats |-> [k \in TaskStatus \cup {"total"} |->
                       IF k = "total" THEN Len(all.out)
                       ELSE Cardinality({i \in 1..Len(all.out) : all.out[i].status = k})]]

\* taskToMarkdown: the lines of the report as <<label, value>>, in the order pushed;
\* a member shows when it is present (the patches sent here carry no code fence to
\* strip); the argument is only read
taskToMarkdown(task) ==
    LET Has(k) == k \in DOMAIN task
        loc == IF ~Has("startLine") THEN <<task.file>>
               ELSE IF ~Has("endLine") THEN <<task.file, task.startLine>>
               ELSE <<task.file, task.startLine, task.endLine>>
    IN  <<<<"title", task.title>>, <<"id", task.id>>, <<"status", task.status>>,
          <<"severity", task.severity>>>>
        \o (IF Has("category") THEN <<<<"category", task.category>>>> ELSE <<>>)
        \o (IF Has("file") THEN <<<<"location", loc>>>> ELSE <<>>)
        \o <<<<"created", task.created_at>>, <<"updated", task.updated_at>>>>
        \o (IF Has("source_review_id")
            THEN <<<<"source", task.source_review_id, task.source_finding_index + 1>>>>
            ELSE <<>>)
        \o <<<<"description", task.description>>>>
        \o (IF Has("suggestion_patch_diff")
            THEN <<<<"patch", task.suggestion_patch_diff>>>> ELSE <<>>)
        \o (IF Has("completed_at") THEN <<<<"completed", task.completed_at>>>> ELSE <<>>)
        \o (IF Has("completed_at") /\ Has("verification_note")
            THEN <<<<"note", task.verification_note>>>> ELSE <<>>)

\* createTasksFromReview, from finding number i (1-based here) on: every outcome
\* [store, ret, now] the loop can end in, over the clock readings and random suffixes
RECURSIVE createTasksLoop(_, _, _, _, _, _)
createTasksLoop(store, reviewId, findings, i, t, acc) ==
    IF i > Len(findings)
    THEN {[store |-> store, ret |-> acc, now |-> t]}
    ELSE LET finding == findings[i]
             task == [status |-> "pending",
                      source_review_id |-> reviewId,
                      source_finding_index |-> i - 1,
                      title |-> Get(finding, "title_ko"),
                      description |-> Get(finding, "detail_ko"),
                      file |-> Get(finding, "file"),
                      startLine |-> Get(finding, "startLine"),
                      endLine |-> Get(finding, "endLine"),
                      severity |-> Get(finding, "severity"),
                      category |-> Get(finding, "category"),
                      suggestion_patch_diff |-> Get(finding, "suggestion_patch_diff")]
         IN  UNION {UNION {UNION {
                 LET saved == saveTask(store, task, t1, sfx, t2)
                 IN  createTasksLoop(saved.store, reviewId, findings, i + 1, t2,
                                     Append(acc, saved.ret))
                 : t2 \in nowIso(t1)} : sfx \in Suffixes} : t1 \in nowIso(t)}

createTasksFromReview(store, reviewId, review, t) ==
    createTasksLoop(store, reviewId, review.findings, 1, t, <<>>)

(***************************************************************************)
(* storage.ts                                                              *)
(***************************************************************************)
\* saveReview: the id is made at clock reading t1, created_at at t2
saveReview(store, record, t1, sfx, t2) ==
    LET id == newReviewId(t1, sfx)
        full == Spread([id |-> id, created_at |-> t2], record)
    IN  [store |-> writeFile(store, id, JSONstringifyReview(full)), ret |-> full]

\* getReview: the parsed content of the file (the caller has checked the file exists)
getReview(store, id) == store[id]

\* the loop of listReviews over the sliced file names: read, parse, push
RECURSIVE listReviewsLoop(_, _, _)
listReviewsLoop(store, sliced, out) ==
    IF sliced = <<>> THEN [err |-> "none", out |-> out]
    ELSE LET content == store[Head(sliced)]
         IN  IF ~IsJSON(content) THEN [err |-> "SyntaxError", out |-> out]
             ELSE listReviewsLoop(store, Tail(sliced), Append(out, content))

\* the name of the report file of a review, `${reviewId}.md`
mdName(reviewId) == reviewId \o <<"md">>

\* f.endsWith(".json"): the file is named by an identifier alone
IsJsonName(f) == Len(f) = 3

\* listReviews: the newest Math.max(1, limit) of the .json files, whatever they hold
listReviews(store, limit) ==
    LET files == sortDescending({f \in DOMAIN store : IsJsonName(f)})
        n == IF limit > 1 THEN limit ELSE 1
        sliced == SubSeq(files, 1, IF Len(files) < n THEN Len(files) ELSE n)
    IN  listReviewsLoop(store, sliced, <<>>)

\* toMarkdown: the lines of the report as tuples, the findings in the order stored
\* (the reviews saved here have no risk and no criteria_feedback)
toMarkdown(review) ==
    [markdown |->
        <<<<"id", review.id>>, <<"created", review.created_at>>,
          <<"target", review.target.base, review.target.head>>,
          <<"summary", review.summary_ko>>>>
        \o [i \in 1..Len(review.findings) |->
               <<"finding", i, review.findings[i].severity, review.findings[i].title_ko>>]]

\* saveMarkdownFile: fs.writeFile of reviews/<reviewId>.md
saveMarkdownFile(store, reviewId, content) == writeFile(store, mdName(reviewId), content)

(***************************************************************************)
(* What callers send (the inputs after schema validation).                 *)
(***************************************************************************)
\* the i-th finding of a review (1-based here): every optional member at odd i, none at even i
FindingInput(i) ==
    IF i % 2 = 1
    THEN [severity |-> "required", category |-> "readability", file |-> "src/a.ts",
          startLine |-> 3, endLine |-> 7, title_ko |-> "X", detail_ko |-> "detail of X",
          suggestion_patch_diff |-> "-a +b"]
    ELSE [severity |-> "suggestion", title_ko |-> "Y", detail_ko |-> "detail of Y"]

FindingSeqs == {[i \in 1..n |-> FindingInput(i)] : n \in 0..MaxFindings}

ReviewSaveInputs ==
    { [target |-> [base |-> "main", head |-> "HEAD"], summary_ko |-> "summary", findings |-> fs]
        : fs \in FindingSeqs }

TaskCreateInputs ==
    { [title |-> "T1", description |-> "D1", severity |-> "required", category |-> "bug",
       file |-> "src/a.ts", startLine |-> 3, endLine |-> 7, suggestion_patch_diff |-> "-a +b"],
      [title |-> "T2", description |-> "D2", severity |-> "improvement"] }

\* the inputs that leave out what is optional: a review without findings, a task
\* without category, location and patch
BareReviewInputs == {input \in ReviewSaveInputs : Len(input.findings) = 0}

BareTaskInputs == {input \in TaskCreateInputs : "category" \notin DOMAIN input}

\* verification_note of task.complete: supplied or not
VerificationNotes == {Undefined("verification_note"), "fixed by hand"}

(***************************************************************************)
(* Tool handlers.  An outcome is [tasks, reviews, now, result, ret, writes]:*)
(* the two collections and the clock after the call, the kind of answer,   *)
(* the records the answer is made from, and the number of files written.   *)
(* "ENOENT" is the rejection of fs.readFile on a file that does not exist, *)
(* "SyntaxError" the exception of JSON.parse.                              *)
(***************************************************************************)
Outcome(tks, rvs, t, result, ret, writes) ==
    [tasks |-> tks, reviews |-> rvs, now |-> t, result |-> result, ret |-> ret,
     writes |-> writes]

\* registerTools.ts: review.save
review_save(tks, rvs, t, input) ==
    UNION {UNION {
        { LET saved == saveReview(rvs, input, t1, sfx, t2)
          IN  Outcome(tks, saved.store, t2, "ok", <<saved.ret>>, 1) : sfx \in Suffixes }
        : t2 \in nowIso(t1)} : t1 \in nowIso(t)}

\* review.save when the medium rejects the write to the file fs.writeFile has opened
review_save_writeRejected(tks, rvs, t, input) ==
    { Outcome(tks, open(rvs, o.ret[1].id), o.now, "EIO", <<>>, 1)
      : o \in review_save(tks, rvs, t, input) }

\* registerTools.ts: review.list (the schema has filled in the limit)
review_list(tks, rvs, t, limit) ==
    LET list == listReviews(rvs, limit)
    IN  IF list.err # "none" THEN {Outcome(tks, rvs, t, "SyntaxError", <<>>, 0)}
        ELSE IF Len(list.out) = 0 THEN {Outcome(tks, rvs, t, "empty", <<>>, 0)}
        ELSE {Outcome(tks, rvs, t, "ok", list.out, 0)}

\* registerTools.ts: review.get
review_get(tks, rvs, t, id) ==
    IF id \notin DOMAIN rvs
    THEN {Outcome(tks, rvs, t, "ENOENT", <<>>, 0)}
    ELSE IF ~IsJSON(rvs[id])
    THEN {Outcome(tks, rvs, t, "SyntaxError", <<>>, 0)}
    ELSE {Outcome(tks, rvs, t, "ok", <<getReview(rvs, id)>>, 0)}

\* registerTools.ts: review.export_markdown
review_export_markdown(tks, rvs, t, id) ==
    IF id \notin DOMAIN rvs
    THEN {Outcome(tks, rvs, t, "ENOENT", <<>>, 0)}
    ELSE IF ~IsJSON(rvs[id])
    THEN {Outcome(tks, rvs, t, "SyntaxError", <<>>, 0)}
    ELSE LET r == getReview(rvs, id)
         IN  {Outcome(tks, saveMarkdownFile(rvs, id, toMarkdown(r)), t, "ok", <<r>>, 1)}

\* registerTaskTools.ts: task.from_review
task_from_review(tks, rvs, t, review_id) ==
    IF review_id \notin DOMAIN rvs
    THEN {Outcome(tks, rvs, t, "ENOENT", <<>>, 0)}
    ELSE LET review == getReview(rvs, review_id)
         IN  IF "findings" \notin DOMAIN review \/ Len(review.findings) = 0
             THEN {Outcome(tks, rvs, t, "no_findings", <<>>, 0)}
             ELSE { Outcome(o.store, rvs, o.now, "ok", o.ret, Len(o.ret))
                    : o \in createTasksFromReview(tks, review_id, review, t) }

\* registerTaskTools.ts: task.create
task_create(tks, rvs, t, input) ==
    LET task == [status |-> "pending",
                 title |-> Get(input, "title"),
                 description |-> Get(input, "description"),
                 severity |-> IF Get(input, "severity") = Undefined("severity")
                              THEN "medium" ELSE Get(input, "severity"),
                 category |-> Get(input, "category"),
                 file |-> Get(input, "file"),
                 startLine |-> Get(input, "startLine"),
                 endLine |-> Get(input, "endLine"),
                 suggestion_patch_diff |-> Get(input, "suggestion_patch_diff")]
    IN  UNION {UNION {
            { LET saved == saveTask(tks, task, t1, sfx, t2)
              IN  Outcome(saved.store, rvs, t2, "ok", <<saved.ret>>, 1) : sfx \in Suffixes }
            : t2 \in nowIso(t1)} : t1 \in nowIso(t)}

\* faulty task.get: the read goes through updateTask and refreshes updated_at
task_get_touches(tks, rvs, t, id) ==
    IF id \notin DOMAIN tks
    THEN {Outcome(tks, rvs, t, "ENOENT", <<>>, 0)}
    ELSE IF ~IsJSON(tks[id])
    THEN {Outcome(tks, rvs, t, "SyntaxError", <<>>, 0)}
    ELSE { LET upd == updateTask(tks, id, <<>>, t1)
           IN  Outcome(upd.store, rvs, t1, "ok", <<upd.ret>>, 1)
           : t1 \in nowIso(t) }

\* registerTaskTools.ts: task.get (the answer is taskToMarkdown of the record in ret)
task_get(tks, rvs, t, id) ==
    IF id \notin DOMAIN tks
    THEN {Outcome(tks, rvs, t, "ENOENT", <<>>, 0)}
    ELSE IF ~IsJSON(tks[id])
    THEN {Outcome(tks, rvs, t, "SyntaxError", <<>>, 0)}
    ELSE {Outcome(tks, rvs, t, "ok", <<getTask(tks, id)>>, 0)}

\* task.create when the medium rejects the write to the file fs.writeFile has opened
task_create_writeRejected(tks, rvs, t, input) ==
    { Outcome(open(tks, o.ret[1].id), rvs, o.now, "EIO", <<>>, 1)
      : o \in task_create(tks, rvs, t, input) }

\* registerTaskTools.ts: task.list (the schema has filled in the limit)
task_list(tks, rvs, t, status, limit) ==
    LET listed == listTasks(tks, status, limit)
        stats == getTaskStats(tks)
    IN  IF listed.err # "none" \/ stats.err # "none"
        THEN {Outcome(tks, rvs, t, "SyntaxError", <<>>, 0)}
        ELSE IF Len(listed.out) = 0
        THEN {Outcome(tks, rvs, t, "empty", <<>>, 0)}
        ELSE {Outcome(tks, rvs, t, "ok", listed.out, 0)}

\* registerTaskTools.ts: task.stats
task_stats(tks, rvs, t) ==
    LET stats == getTaskStats(tks)
    IN  IF stats.err # "none"
        THEN {Outcome(tks, rvs, t, "SyntaxError", <<>>, 0)}
        ELSE {Outcome(tks, rvs, t, "ok", <<stats.stats>>, 0)}

\* faulty task.execute: no check for a completed task
task_execute_noCompletedGuard(tks, rvs, t, id) ==
    IF id \notin DOMAIN tks
    THEN {Outcome(tks, rvs, t, "ENOENT", <<>>, 0)}
    ELSE LET task == getTask(tks, id)
         IN  IF task.status = "cancelled"
             THEN {Outcome(tks, rvs, t, "cancelled_guidance", <<>>, 0)}
             ELSE { LET upd == updateTaskStatus(tks, id, "in_progress", <<>>, t1)
                    IN  Outcome(upd.store, rvs, t1, "ok", <<upd.ret>>, 1)
                    : t1 \in nowIso(t) }

\* faulty task.execute: no check for a cancelled task
task_execute_noCancelledGuard(tks, rvs, t, id) ==
    IF id \notin DOMAIN tks
    THEN {Outcome(tks, rvs, t, "ENOENT", <<>>, 0)}
    ELSE LET task == getTask(tks, id)
         IN  IF task.status = "completed"
             THEN {Outcome(tks, rvs, t, "already_completed", <<task>>, 0)}
             ELSE { LET upd == updateTaskStatus(tks, id, "in_progress", <<>>, t1)
                    IN  Outcome(upd.store, rvs, t1, "ok", <<upd.ret>>, 1)
                    : t1 \in nowIso(t) }

\* registerTaskTools.ts: task.execute
task_execute(tks, rvs, t, id) ==
    IF id \notin DOMAIN tks
    THEN {Outcome(tks, rvs, t, "ENOENT", <<>>, 0)}
    ELSE LET task == getTask(tks, id)
         IN  IF task.status = "completed"
             THEN {Outcome(tks, rvs, t, "already_completed", <<task>>, 0)}
             ELSE IF task.status = "cancelled"
             THEN {Outcome(tks, rvs, t, "cancelled_guidance", <<>>, 0)}
             ELSE { LET upd == updateTaskStatus(tks, id, "in_progress", <<>>, t1)
                    IN  Outcome(upd.store, rvs, t1, "ok", <<upd.ret>>, 1)
                    : t1 \in nowIso(t) }

\* faulty task.verify: refuses a completed or cancelled task only
task_verify_pendingAccepted(tks, rvs, t, id) ==
    IF id \notin DOMAIN tks
    THEN {Outcome(tks, rvs, t, "ENOENT", <<>>, 0)}
    ELSE LET task == getTask(tks, id)
         IN  IF task.status \in {"completed", "cancelled"}
             THEN {Outcome(tks, rvs, t, "not_in_progress_guidance", <<>>, 0)}
             ELSE {Outcome(tks, rvs, t, "ok", <<task>>, 0)}

\* registerTaskTools.ts: task.verify
task_verify(tks, rvs, t, id) ==
    IF id \notin DOMAIN tks
    THEN {Outcome(tks, rvs, t, "ENOENT", <<>>, 0)}
    ELSE LET task == getTask(tks, id)
         IN  IF task.status # "in_progress"
             THEN {Outcome(tks, rvs, t, "not_in_progress_guidance", <<>>, 0)}
             ELSE {Outcome(tks, rvs, t, "ok", <<task>>, 0)}

\* faulty task.complete: no check for a completed task
task_complete_noGuard(tks, rvs, t, id, verification_note) ==
    IF id \notin DOMAIN tks
    THEN {Outcome(tks, rvs, t, "ENOENT", <<>>, 0)}
    ELSE UNION {
           { LET upd == updateTaskStatus(tks, id, "completed",
                            [completed_at |-> t1,
                             verification_note |-> verification_note], t2)
             IN  Outcome(upd.store, rvs, t2, "ok", <<upd.ret>>, 1)
             : t2 \in nowIso(t1) } : t1 \in nowIso(t)}

\* faulty task.complete: the status is set without completed_at and verification_note
task_complete_noStamp(tks, rvs, t, id, verification_note) ==
    IF id \notin DOMAIN tks
    THEN {Outcome(tks, rvs, t, "ENOENT", <<>>, 0)}
    ELSE LET task == getTask(tks, id)
         IN  IF task.status = "completed"
             THEN {Outcome(tks, rvs, t, "already_completed", <<task>>, 0)}
             ELSE { LET upd == updateTaskStatus(tks, id, "completed", <<>>, t1)
                    IN  Outcome(upd.store, rvs, t1, "ok", <<upd.ret>>, 1)
                    : t1 \in nowIso(t) }

\* registerTaskTools.ts: task.complete
task_complete(tks, rvs, t, id, verification_note) ==
    IF id \notin DOMAIN tks
    THEN {Outcome(tks, rvs, t, "ENOENT", <<>>, 0)}
    ELSE LET task == getTask(tks, id)
         IN  IF task.status = "completed"
             THEN {Outcome(tks, rvs, t, "already_completed", <<task>>, 0)}
             ELSE UNION {
                    { LET upd == updateTaskStatus(tks, id, "completed",
                                     [completed_at |-> t1,
                                      verification_note |-> verification_note], t2)
                      IN  Outcome(upd.store, rvs, t2, "ok", <<upd.ret>>, 1)
                      : t2 \in nowIso(t1) } : t1 \in nowIso(t)}

\* registerTaskTools.ts: task.delete
task_delete(tks, rvs, t, id) ==
    IF id \notin DOMAIN tks
    THEN {Outcome(tks, rvs, t, "ENOENT", <<>>, 0)}
    ELSE {Outcome(deleteTask(tks, id), rvs, t, "ok", <<getTask(tks, id)>>, 0)}

\* faulty task.update_status: an identifier with no file gets one, holding the updates
task_update_status_upserts(tks, rvs, t, id, status) ==
    { LET existing == IF id \in DOMAIN tks THEN tks[id] ELSE [k \in {"id"} |-> id]
          updated == Spread(existing, [status |-> status, updated_at |-> t1])
      IN  Outcome(writeFile(tks, id, JSONstringify(updated)), rvs, t1, "ok", <<updated>>, 1)
      : t1 \in nowIso(t) }

\* faulty task.update_status: every status change is stamped with a completed_at
task_update_status_stamps(tks, rvs, t, id, status) ==
    IF id \notin DOMAIN tks
    THEN {Outcome(tks, rvs, t, "ENOENT", <<>>, 0)}
    ELSE { LET upd == updateTaskStatus(tks, id, status, [completed_at |-> t1], t1)
           IN  Outcome(upd.store, rvs, t1, "ok", <<upd.ret>>, 1)
           : t1 \in nowIso(t) }

\* registerTaskTools.ts: task.update_status
task_update_status(tks, rvs, t, id, status) ==
    IF id \notin DOMAIN tks
    THEN {Outcome(tks, rvs, t, "ENOENT", <<>>, 0)}
    ELSE { LET upd == updateTaskStatus(tks, id, status, <<>>, t1)
           IN  Outcome(upd.store, rvs, t1, "ok", <<upd.ret>>, 1)
           : t1 \in nowIso(t) }

\* a task tool given the id "../reviews/<review id>" (TaskIdSchema admits any
\* non-empty string): path.join(dataDir, "tasks", `${id}.json`) is the file of the
\* review, so the tool does its work in the reviews collection
onReviewFile(tks, outcomes) ==
    { Outcome(tks, o.tasks, o.now, o.result, o.ret, o.writes) : o \in outcomes }

\* task.delete of "../reviews/<review_id>"
task_delete_reviewPath(tks, rvs, t, review_id) ==
    onReviewFile(tks, task_delete(rvs, rvs, t, review_id))

\* task.update_status of "../reviews/<review_id>"
task_update_status_reviewPath(tks, rvs, t, review_id, status) ==
    onReviewFile(tks, task_update_status(rvs, rvs, t, review_id, status))

(***************************************************************************)
(* env.ts: where the data directory is.  A path is the sequence of its     *)
(* segments.                                                               *)
(***************************************************************************)
\* the value null of cachedRootsPath, and an environment variable that is not set
null == <<>>

\* process.cwd(), the fallbackPath main hands to createEnvGetters
process_cwd == <<"cwd">>

\* process.env.PROJECT_ROOT and process.env.DATA_DIR: not set
PROJECT_ROOT == null

DATA_DIR == null

\* fetchRootsFromClient: null when the client has no roots or the request fails,
\* else the path of the first root, which is the server's directory or another
fetchRootsFromClient == {null, process_cwd, <<"workspace">>}

\* resolveProjectRoot, with cachedRootsPath as it is when called
resolveProjectRoot(cached, fallbackPath) ==
    IF cached # null THEN cached
    ELSE IF PROJECT_ROOT # null THEN PROJECT_ROOT
    ELSE fallbackPath

\* getDataDir of createEnvGetters, with cachedRootsPath as it is when called
getDataDir(cached) ==
    LET projectRoot == resolveProjectRoot(cached, process_cwd)
    IN  IF DATA_DIR # null THEN DATA_DIR
        ELSE projectRoot \o <<".review", "data">>

(***************************************************************************)
(* Overlapping calls.  A call in flight is [op, pc, id, args, text]: the   *)
(* tool, the await it is suspended at, the task it is about, the arguments *)
(* or the updates it passes on, and the text it is about to write.         *)
(***************************************************************************)
\* a member of a call that has no value (yet)
NoRecord == [none |-> TRUE]

Call(op, pc, id, args, text) == [op |-> op, pc |-> pc, id |-> id, args |-> args, text |-> text]

\* a slot with no call in flight
Idle == Call("idle", "done", Undefined("id"), NoRecord, NoRecord)

(***************************************************************************)
(* State machine: any tool can be called at any time, one call at a time.  *)
(* `written` counts the files written or removed so far by the calls that  *)
(* changed a collection.                                                   *)
(***************************************************************************)
Init ==
    /\ now = 0
    /\ tasks = <<>>
    /\ reviews = <<>>
    /\ written = 0
    /\ calls = [i \in 1..MaxCalls |-> Idle]
    /\ cachedRootsPath = null
    /\ rootsTasks = <<>>

\* outcome o changes a collection
Changes(o) == o.tasks # tasks \/ o.reviews # reviews

\* the step is a call that ends in outcome o
IsCall(o) ==
    /\ tasks' = o.tasks
    /\ reviews' = o.reviews
    /\ now' = o.now

\* the files a call with outcome o changes: the ones it wrote, or the one it removed
Cost(o) == IF ~Changes(o) THEN 0 ELSE IF o.writes = 0 THEN 1 ELSE o.writes

Apply(o) ==
    /\ written + Cost(o) <= MaxWrites
    /\ IsCall(o)
    /\ written' = written + Cost(o)
    /\ UNCHANGED <<calls, cachedRootsPath, rootsTasks>>

ReviewSave == \E input \in ReviewSaveInputs : \E o \in review_save(tasks, reviews, now, input) : Apply(o)

ReviewGet == \E id \in ReviewIds : \E o \in review_get(tasks, reviews, now, id) : Apply(o)

TaskFromReview == \E id \in ReviewIds : \E o \in task_from_review(tasks, reviews, now, id) : Apply(o)

TaskCreate == \E input \in TaskCreateInputs : \E o \in task_create(tasks, reviews, now, input) : Apply(o)

TaskList ==
    \E status \in TaskStatus \cup {NoStatus}, limit \in 1..MaxLimit :
        \E o \in task_list(tasks, reviews, now, status, limit) : Apply(o)

TaskStats == \E o \in task_stats(tasks, reviews, now) : Apply(o)

TaskGet == \E id \in TaskIds : \E o \in task_get(tasks, reviews, now, id) : Apply(o)

TaskExecute == \E id \in TaskIds : \E o \in task_execute(tasks, reviews, now, id) : Apply(o)

TaskVerify == \E id \in TaskIds : \E o \in task_verify(tasks, reviews, now, id) : Apply(o)

TaskComplete ==
    \E id \in TaskIds, note \in VerificationNotes :
        \E o \in task_complete(tasks, reviews, now, id, note) : Apply(o)

TaskDelete == \E id \in TaskIds : \E o \in task_delete(tasks, reviews, now, id) : Apply(o)

TaskUpdateStatus ==
    \E id \in TaskIds, status \in TaskStatus :
        \E o \in task_update_status(tasks, reviews, now, id, status) : Apply(o)

\* the task lifecycle: tasks made by hand and driven through their statuses
Next ==
    \/ TaskCreate
    \/ TaskGet
    \/ TaskExecute
    \/ TaskVerify
    \/ TaskComplete
    \/ TaskDelete
    \/ TaskUpdateStatus

Spec == Init /\ [][Next]_vars

\* the converter: reviews saved and read, converted to tasks, tasks read and deleted
NextStore ==
    \/ ReviewSave
    \/ ReviewGet
    \/ TaskFromReview
    \/ TaskGet
    \/ TaskDelete

SpecStore == Init /\ [][NextStore]_vars

\* create and read: records of both collections made by hand and read back
NextCreate ==
    \/ ReviewSave
    \/ ReviewGet
    \/ TaskCreate
    \/ TaskGet

SpecCreate == Init /\ [][NextCreate]_vars

\* listing and deleting: tasks made by hand, set to any status, listed, read, deleted
NextList ==
    \/ TaskCreate
    \/ TaskUpdateStatus
    \/ TaskList
    \/ TaskStats
    \/ TaskGet
    \/ TaskDelete

SpecList == Init /\ [][NextList]_vars

ReviewSaveBare ==
    \E input \in BareReviewInputs :
        \E o \in review_save(tasks, reviews, now, input) : Apply(o)

ReviewSaveFails ==
    \E input \in BareReviewInputs :
        \E o \in review_save_writeRejected(tasks, reviews, now, input) : Apply(o)

ReviewList == \E limit \in 1..MaxLimit : \E o \in review_list(tasks, reviews, now, limit) : Apply(o)

TaskCreateBare ==
    \E input \in BareTaskInputs :
        \E o \in task_create(tasks, reviews, now, input) : Apply(o)

TaskCreateFails ==
    \E input \in BareTaskInputs :
        \E o \in task_create_writeRejected(tasks, reviews, now, input) : Apply(o)

\* the scans: records made, some by a write that failed, then listed and read
NextScan ==
    \/ ReviewSaveBare
    \/ ReviewSaveFails
    \/ ReviewList
    \/ ReviewGet
    \/ TaskCreateBare
    \/ TaskCreateFails
    \/ TaskList
    \/ TaskGet

SpecScan == Init /\ [][NextScan]_vars

ReviewExport ==
    \E id \in ReviewIds : \E o \in review_export_markdown(tasks, reviews, now, id) : Apply(o)

TaskDeleteReviewPath ==
    \E id \in ReviewIds : \E o \in task_delete_reviewPath(tasks, reviews, now, id) : Apply(o)

TaskUpdateStatusReviewPath ==
    \E id \in ReviewIds, status \in TaskStatus :
        \E o \in task_update_status_reviewPath(tasks, reviews, now, id, status) : Apply(o)

\* the reviews collection: reviews saved, read, listed, exported, converted, and
\* the task tools that delete and update by file path
NextReview ==
    \/ ReviewSave
    \/ ReviewGet
    \/ ReviewList
    \/ ReviewExport
    \/ TaskFromReview
    \/ TaskDelete
    \/ TaskDeleteReviewPath
    \/ TaskUpdateStatusReviewPath

SpecReview == Init /\ [][NextReview]_vars

\* the tasks collection of data directory dataDir
tasksIn(dataDir) == IF dataDir = getDataDir(null) THEN tasks ELSE rootsTasks

\* a call that works in the collection of data directory dataDir ends in outcome o
ApplyIn(dataDir, o) ==
    /\ written + o.writes <= MaxWrites
    /\ written' = written + o.writes
    /\ now' = o.now
    /\ IF dataDir = getDataDir(null)
       THEN tasks' = o.tasks /\ UNCHANGED rootsTasks
       ELSE rootsTasks' = o.tasks /\ UNCHANGED tasks
    /\ UNCHANGED <<reviews, calls, cachedRootsPath>>

\* the callback of setTimeout in createEnvGetters: the roots of the client arrive
RootsLookup ==
    /\ cachedRootsPath = null
    /\ \E rootsPath \in fetchRootsFromClient :
          /\ rootsPath # null
          /\ cachedRootsPath' = rootsPath
    /\ UNCHANGED <<now, tasks, reviews, written, calls, rootsTasks>>

\* task.create and task.get, in the directory env.getDataDir() returns at the call
TaskCreateEnv ==
    \E input \in BareTaskInputs :
        LET dataDir == getDataDir(cachedRootsPath)
        IN  \E o \in task_create(tasksIn(dataDir), reviews, now, input) : ApplyIn(dataDir, o)

TaskGetEnv ==
    \E id \in TaskIds :
        LET dataDir == getDataDir(cachedRootsPath)
        IN  \E o \in task_get(tasksIn(dataDir), reviews, now, id) : ApplyIn(dataDir, o)

\* one server process: tasks created and read while the lookup of the roots runs
NextEnv ==
    \/ RootsLookup
    \/ TaskCreateEnv
    \/ TaskGetEnv

SpecEnv == Init /\ [][NextEnv]_vars

\* review.save of a review with one finding
ReviewSaveOne ==
    \E input \in {r \in ReviewSaveInputs : Len(r.findings) = 1} :
        \E o \in review_save(tasks, reviews, now, input) : Apply(o)

\* the life of a task: made by hand or from a review, executed, completed, set to
\* any status, deleted
NextLife ==
    \/ ReviewSaveOne
    \/ TaskFromReview
    \/ TaskCreateBare
    \/ TaskExecute
    \/ TaskComplete
    \/ TaskUpdateStatus
    \/ TaskDelete

SpecLife == Init /\ [][NextLife]_vars

(***************************************************************************)
(* Overlapping calls: the handlers above, one await at a time.  A step of  *)
(* call c in store tks at clock t is [call, tasks, now, result, writes]:   *)
(* the call after the step (Idle when it has answered), the task files and *)
(* the clock, "await" or the kind of answer, and the files opened.         *)
(***************************************************************************)
Step(c, tks, t, result, writes) ==
    [call |-> c, tasks |-> tks, now |-> t, result |-> result, writes |-> writes]

\* the handler answers (or throws): the call is over
Answer(tks, t, result) == Step(Idle, tks, t, result, 0)

\* what fs.readFile and JSON.parse make of the file of id
readResult(tks, id) ==
    IF id \notin DOMAIN tks THEN "ENOENT"
    ELSE IF ~IsJSON(tks[id]) THEN "SyntaxError"
    ELSE "ok"

\* the handler's own `await getTask(...)` and the code up to its next await
atGetTask(c, tks, t) ==
    IF readResult(tks, c.id) # "ok" THEN {Answer(tks, t, readResult(tks, c.id))}
    ELSE LET task == getTask(tks, c.id)
         IN  IF c.op = "task.get" THEN {Answer(tks, t, "ok")}
             ELSE IF c.op = "task.delete"
             THEN {Step(Call(c.op, "unlink", c.id, c.args, NoRecord), tks, t, "await", 0)}
             ELSE IF task.status = "completed" THEN {Answer(tks, t, "already_completed")}
             ELSE IF c.op = "task.execute"
             THEN IF task.status = "cancelled"
                  THEN {Answer(tks, t, "cancelled_guidance")}
                  ELSE {Step(Call(c.op, "updateTask", c.id, [status |-> "in_progress"], NoRecord),
                             tks, t, "await", 0)}
             ELSE \* task.complete: completed_at is new Date().toISOString()
                  { Step(Call(c.op, "updateTask", c.id,
                              [status |-> "completed", completed_at |-> t1,
                               verification_note |-> c.args.verification_note], NoRecord),
                         tks, t1, "await", 0) : t1 \in nowIso(t) }

\* updateTask's `await getTask(...)`, the merge, and the call of fs.writeFile
atUpdateTask(c, tks, t) ==
    IF readResult(tks, c.id) # "ok" THEN {Answer(tks, t, readResult(tks, c.id))}
    ELSE { LET existing == getTask(tks, c.id)
               updated == Spread(Spread(existing, c.args), [updated_at |-> t1])
           IN  Step(Call(c.op, "writeFile", c.id, c.args, JSONstringify(updated)),
                    tks, t1, "await", 0)
           : t1 \in nowIso(t) }

\* saveTask up to its call of fs.writeFile
atSaveTask(c, tks, t) ==
    UNION {UNION {
        { LET id == newTaskId(t1, sfx)
              full == Spread([id |-> id, created_at |-> t2, updated_at |-> t2], c.args)
          IN  Step(Call(c.op, "writeFile", id, c.args, JSONstringify(full)),
                   tks, t2, "await", 0) : sfx \in Suffixes }
        : t2 \in nowIso(t1)} : t1 \in nowIso(t)}

\* the call when its fs.writeFile has resolved
afterWrite(c) ==
    IF c.op = "task.complete"
    THEN Call(c.op, "getTaskStats", c.id, c.args, NoRecord)
    ELSE Idle

\* fs.writeFile: the file is opened (and so emptied), then written.  Either both
\* happen before any other call runs, or the call is suspended between them.
atWriteFile(c, tks, t) ==
    { Step(afterWrite(c), write(open(tks, c.id), c.id, c.text), t,
           IF afterWrite(c) = Idle THEN "ok" ELSE "await", 1),
      Step(Call(c.op, "write", c.id, c.args, c.text), open(tks, c.id), t, "await", 1) }

\* the write through the open handle: it succeeds, or the medium rejects it
atWrite(c, tks, t) ==
    { Step(afterWrite(c), write(tks, c.id, c.text), t,
           IF afterWrite(c) = Idle THEN "ok" ELSE "await", 0),
      Answer(tks, t, "EIO") }

\* task.complete's `await getTaskStats(...)`, and its answer
atGetTaskStats(c, tks, t) ==
    IF getTaskStats(tks).err = "none"
    THEN {Answer(tks, t, "ok")}
    ELSE {Answer(tks, t, "SyntaxError")}

\* deleteTask's `await fs.unlink(file)`, and the answer of task.delete
atUnlink(c, tks, t) ==
    IF c.id \notin DOMAIN tks THEN {Answer(tks, t, "ENOENT")}
    ELSE {Step(Idle, deleteTask(tks, c.id), t, "ok", 1)}

\* listTasks' `await fs.readdir(dir)`: the file names as they are now, sorted
atReaddir(c, tks, t) ==
    {Step(Call(c.op, "readFile", c.id,
               Spread(c.args, [files |-> sortDescending(DOMAIN tks), out |-> <<>>]),
               NoRecord),
          tks, t, "await", 0)}

\* the loop of listTasks at `await fs.readFile(...)` of the next file name: the
\* file is read as it is now, parsed, filtered and pushed; at the end of the loop
\* task.list goes on to getTaskStats
atReadFile(c, tks, t) ==
    LET ended == Call(c.op, "getTaskStats", c.id, c.args, NoRecord)
    IN  IF c.args.files = <<>> THEN {Step(ended, tks, t, "await", 0)}
        ELSE LET f == Head(c.args.files)
                 rest == Tail(c.args.files)
             IN  IF readResult(tks, f) # "ok" THEN {Answer(tks, t, readResult(tks, f))}
                 ELSE IF c.args.status # NoStatus /\ tks[f].status # c.args.status
                 THEN {Step(Call(c.op, "readFile", c.id, Spread(c.args, [files |-> rest]),
                                 NoRecord), tks, t, "await", 0)}
                 ELSE LET pushed == Append(c.args.out, tks[f])
                      IN  IF c.args.limit # NoLimit /\ Len(pushed) >= c.args.limit
                          THEN {Step(Spread(ended, [args |-> Spread(c.args, [out |-> pushed])]),
                                     tks, t, "await", 0)}
                          ELSE {Step(Call(c.op, "readFile", c.id,
                                          Spread(c.args, [files |-> rest, out |-> pushed]),
                                          NoRecord), tks, t, "await", 0)}

\* the steps call c can take
callStep(c, tks, t) ==
    IF c.pc = "getTask" THEN atGetTask(c, tks, t)
    ELSE IF c.pc = "updateTask" THEN atUpdateTask(c, tks, t)
    ELSE IF c.pc = "saveTask" THEN atSaveTask(c, tks, t)
    ELSE IF c.pc = "writeFile" THEN atWriteFile(c, tks, t)
    ELSE IF c.pc = "write" THEN atWrite(c, tks, t)
    ELSE IF c.pc = "getTaskStats" THEN atGetTaskStats(c, tks, t)
    ELSE IF c.pc = "unlink" THEN atUnlink(c, tks, t)
    ELSE IF c.pc = "readdir" THEN atReaddir(c, tks, t)
    ELSE IF c.pc = "readFile" THEN atReadFile(c, tks, t)
    ELSE {}

\* the task of task.create, as the handler hands it to saveTask
createdTask(input) ==
    [status |-> "pending",
     title |-> Get(input, "title"),
     description |-> Get(input, "description"),
     severity |-> IF Get(input, "severity") = Undefined("severity")
                  THEN "medium" ELSE Get(input, "severity"),
     category |-> Get(input, "category"),
     file |-> Get(input, "file"),
     startLine |-> Get(input, "startLine"),
     endLine |-> Get(input, "endLine"),
     suggestion_patch_diff |-> Get(input, "suggestion_patch_diff")]

\* the calls a client can send, each at its first await (tasks are created without
\* their optional members)
Arrivals(tks) ==
    {Call("task.create", "saveTask", Undefined("id"), createdTask(input), NoRecord)
        : input \in BareTaskInputs}
    \cup {Call("task.get", "getTask", id, NoRecord, NoRecord) : id \in DOMAIN tks}
    \cup {Call("task.execute", "getTask", id, NoRecord, NoRecord) : id \in DOMAIN tks}
    \cup {Call("task.complete", "getTask", id, [verification_note |-> note], NoRecord)
            : id \in DOMAIN tks, note \in VerificationNotes}
    \cup {Call("task.update_status", "updateTask", id, [status |-> status], NoRecord)
            : id \in DOMAIN tks, status \in TaskStatus}

\* a call arrives while others may be in flight, and takes the first free slot
CallArrives ==
    \E i \in 1..MaxCalls : \E c \in Arrivals(tasks) :
        /\ calls[i] = Idle
        /\ \A j \in 1..(i - 1) : calls[j] # Idle
        /\ calls' = [calls EXCEPT ![i] = c]
        /\ UNCHANGED <<now, tasks, reviews, written, cachedRootsPath, rootsTasks>>

\* the step is call i running to its next await with outcome o
IsStep(i, o) ==
    /\ calls' = [calls EXCEPT ![i] = o.call]
    /\ tasks' = o.tasks
    /\ now' = o.now

\* the event loop resumes one of the calls in flight
Resume ==
    \E i \in 1..MaxCalls : \E o \in callStep(calls[i], tasks, now) :
        /\ written + o.writes <= MaxWrites
        /\ IsStep(i, o)
        /\ written' = written + o.writes
        /\ UNCHANGED <<reviews, cachedRootsPath, rootsTasks>>

NextConc ==
    \/ CallArrives
    \/ Resume

SpecConc == Init /\ [][NextConc]_vars

\* the calls of a client that creates tasks, starts them, deletes them and lists
\* them all (no status filter, the largest limit)
ArrivalsRace(tks) ==
    {Call("task.create", "saveTask", Undefined("id"), createdTask(input), NoRecord)
        : input \in BareTaskInputs}
    \cup {Call("task.delete", "getTask", id, NoRecord, NoRecord) : id \in DOMAIN tks}
    \cup {Call("task.update_status", "updateTask", id, [status |-> "in_progress"], NoRecord)
            : id \in DOMAIN tks}
    \cup {Call("task.list", "readdir", Undefined("id"),
                [status |-> NoStatus, limit |-> MaxLimit], NoRecord)}

CallArrivesRace ==
    \E i \in 1..MaxCalls : \E c \in ArrivalsRace(tasks) :
        /\ calls[i] = Idle
        /\ \A j \in 1..(i - 1) : calls[j] # Idle
        /\ calls' = [calls EXCEPT ![i] = c]
        /\ UNCHANGED <<now, tasks, reviews, written, cachedRootsPath, rootsTasks>>

\* overlapping calls that create, update, delete and list
NextRace ==
    \/ CallArrivesRace
    \/ Resume

SpecRace == Init /\ [][NextRace]_vars

(***************************************************************************)
(* Properties.                                                             *)
(***************************************************************************)
\* records a and b have the same members with the same values, the members in ks aside
SameExcept(a, b, ks) ==
    /\ (DOMAIN a) \ ks = (DOMAIN b) \ ks
    /\ \A k \in (DOMAIN a) \ ks : a[k] = b[k]

\* every task other than id is stored in tks2 as it is in tks1
OthersKept(tks1, tks2, id) ==
    /\ (DOMAIN tks1) \ {id} = (DOMAIN tks2) \ {id}
    /\ \A i \in (DOMAIN tks1) \ {id} : tks1[i] = tks2[i]

\* C1: Execute on a pending or in_progress task leaves it stored as in_progress and
\* changes nothing of the record but status and updated_at (on an in_progress task,
\* nothing but updated_at).
C1_ExecuteStartsTask ==
    \A id \in DOMAIN tasks :
        tasks[id].status \in {"pending", "in_progress"} =>
            \A o \in task_execute(tasks, reviews, now, id) :
                /\ o.result = "ok"
                /\ id \in DOMAIN o.tasks
                /\ o.tasks[id].status = "in_progress"
                /\ SameExcept(tasks[id], o.tasks[id], {"status", "updated_at"})
                /\ tasks[id].status = "in_progress" =>
                       SameExcept(tasks[id], o.tasks[id], {"updated_at"})

\* an in_progress task that was completed before (it has completion metadata to keep)
\* is executed again at a later millisecond
C1_Witness ==
    \E id \in DOMAIN tasks :
        /\ tasks[id].status = "in_progress"
        /\ "completed_at" \in DOMAIN tasks[id]
        /\ \E o \in task_execute(tasks, reviews, now, id) :
              /\ o.tasks[id].updated_at > tasks[id].updated_at
              /\ o.tasks[id].status = "in_progress"

\* C2: Complete on an in_progress task stores status completed with completed_at a
\* clock reading of the call (and the verification_note, when one is supplied); a
\* Complete after it writes nothing, answers already-done, and leaves and reports the
\* completed_at of the first.
C2_CompleteStampsOnce ==
    \A id \in DOMAIN tasks : \A note \in VerificationNotes :
        tasks[id].status = "in_progress" =>
            \A o \in task_complete(tasks, reviews, now, id, note) :
                /\ o.result = "ok"
                /\ id \in DOMAIN o.tasks
                /\ o.tasks[id].status = "completed"
                /\ "completed_at" \in DOMAIN o.tasks[id]
                /\ now <= o.tasks[id].completed_at
                /\ o.tasks[id].completed_at <= o.now
                /\ note # Undefined("verification_note") =>
                       Get(o.tasks[id], "verification_note") = note
                /\ \A note2 \in VerificationNotes :
                       \A o2 \in task_complete(o.tasks, o.reviews, o.now, id, note2) :
                           /\ o2.result = "already_completed"
                           /\ o2.writes = 0
                           /\ o2.tasks = o.tasks
                           /\ o2.ret = <<o.tasks[id]>>
                           /\ o2.ret[1].completed_at = o.tasks[id].completed_at

\* a task completed with a note at an earlier millisecond, on which Complete is called
\* again and answers already-done
C2_Witness ==
    \E id \in DOMAIN tasks :
        /\ tasks[id].status = "completed"
        /\ "completed_at" \in DOMAIN tasks[id]
        /\ "verification_note" \in DOMAIN tasks[id]
        /\ tasks[id].completed_at < now
        /\ \E o \in task_complete(tasks, reviews, now, id, "fixed by hand") :
              o.result = "already_completed"

\* C3: Complete changes a status only from in_progress to completed: called on a
\* pending or cancelled task it is refused and leaves status and completed_at as
\* they are.
C3_CompleteOnlyFromInProgress ==
    [][\A id \in DOMAIN tasks : \A note \in VerificationNotes :
         tasks[id].status \in {"pending", "cancelled"} =>
             \A o \in task_complete(tasks, reviews, now, id, note) :
                 IsCall(o) =>
                     /\ o.result # "ok"
                     /\ id \in DOMAIN tasks'
                     /\ tasks'[id].status = tasks[id].status
                     /\ Get(tasks'[id], "completed_at") = Get(tasks[id], "completed_at")]_vars

\* C4: Execute on a cancelled task is refused with guidance and writes nothing: the
\* stored record, status and updated_at included, is as before.
C4_ExecuteCancelledRejected ==
    \A id \in DOMAIN tasks :
        tasks[id].status = "cancelled" =>
            \A o \in task_execute(tasks, reviews, now, id) :
                /\ o.result = "cancelled_guidance"
                /\ o.writes = 0
                /\ o.tasks = tasks
                /\ o.reviews = reviews

\* a task cancelled at an earlier millisecond (a rewrite now would show in updated_at)
\* on which Execute answers with the guidance
C4_Witness ==
    \E id \in DOMAIN tasks :
        /\ tasks[id].status = "cancelled"
        /\ tasks[id].updated_at < now
        /\ \E o \in task_execute(tasks, reviews, now, id) : o.result = "cancelled_guidance"

\* C5: Execute on a completed task makes no transition and no write: status,
\* completed_at and updated_at are as before, and the answer is already-done.
C5_ExecuteCompletedNoOp ==
    \A id \in DOMAIN tasks :
        tasks[id].status = "completed" =>
            \A o \in task_execute(tasks, reviews, now, id) :
                /\ o.result = "already_completed"
                /\ o.writes = 0
                /\ o.tasks = tasks
                /\ o.reviews = reviews
                /\ o.ret = <<tasks[id]>>

\* a task completed by Complete at an earlier millisecond on which Execute answers
\* already-done
C5_Witness ==
    \E id \in DOMAIN tasks :
        /\ tasks[id].status = "completed"
        /\ "completed_at" \in DOMAIN tasks[id]
        /\ tasks[id].updated_at < now
        /\ \E o \in task_execute(tasks, reviews, now, id) : o.result = "already_completed"

\* C6: Verify succeeds exactly for an in_progress task and answers with guidance for
\* a pending, completed or cancelled one; either way it writes nothing.
C6_VerifyOnlyInProgress ==
    \A id \in DOMAIN tasks :
        \A o \in task_verify(tasks, reviews, now, id) :
            /\ tasks[id].status = "in_progress" => o.result = "ok" /\ o.ret = <<tasks[id]>>
            /\ tasks[id].status # "in_progress" => o.result = "not_in_progress_guidance"
            /\ o.writes = 0
            /\ o.tasks = tasks
            /\ o.reviews = reviews
            /\ o.now = now

\* two stored tasks: Verify succeeds on the in_progress one and is refused on the other
C6_Witness ==
    \E a \in DOMAIN tasks : \E b \in DOMAIN tasks :
        /\ tasks[a].status = "in_progress"
        /\ tasks[b].status # "in_progress"
        /\ \E o \in task_verify(tasks, reviews, now, a) : o.result = "ok"
        /\ \E o \in task_verify(tasks, reviews, now, b) : o.result = "not_in_progress_guidance"

\* C7: a direct status update is unguarded: on every stored task, whatever its status,
\* and for every target status it succeeds, the stored status becomes the target and
\* nothing but status and updated_at changes (the other tasks are as before).
C7_UpdateStatusUnguarded ==
    \A id \in DOMAIN tasks : \A status \in TaskStatus :
        \A o \in task_update_status(tasks, reviews, now, id, status) :
            /\ o.result = "ok"
            /\ id \in DOMAIN o.tasks
            /\ o.tasks[id].status = status
            /\ SameExcept(tasks[id], o.tasks[id], {"status", "updated_at"})
            /\ OthersKept(tasks, o.tasks, id)

\* a task that was completed and then cancelled by a direct update (only a direct update
\* makes a task cancelled) and can be set back to pending, keeping its completed_at
C7_Witness ==
    \E id \in DOMAIN tasks :
        /\ tasks[id].status = "cancelled"
        /\ "completed_at" \in DOMAIN tasks[id]
        /\ \E o \in task_update_status(tasks, reviews, now, id, "pending") :
              /\ o.tasks[id].status = "pending"
              /\ o.tasks[id].completed_at = tasks[id].completed_at


\* C8: converting a stored review with n findings stores exactly n new tasks and
\* returns them in finding order, the i-th linked to the review and to finding i,
\* pending, with the finding's fields; with no findings nothing is written and the
\* answer is an empty result.
C8_ConverterOneTaskPerFinding ==
    [][\A rid \in DOMAIN reviews :
         \A o \in task_from_review(tasks, reviews, now, rid) :
             IsCall(o) =>
                 LET findings == reviews[rid].findings
                     n == Len(findings)
                 IN  /\ o.result \in {"ok", "no_findings"}
                     /\ Len(o.ret) = n
                     /\ Cardinality((DOMAIN tasks') \ (DOMAIN tasks)) = n
                     /\ \A i \in 1..n :
                          /\ o.ret[i].id \in DOMAIN tasks'
                          /\ LET task == tasks'[o.ret[i].id]
                             IN  /\ Get(task, "source_review_id") = rid
                                 /\ Get(task, "source_finding_index") = i - 1
                                 /\ Get(task, "status") = "pending"
                                 /\ Get(task, "title") = Get(findings[i], "title_ko")
                                 /\ Get(task, "description") = Get(findings[i], "detail_ko")
                                 /\ \A k \in {"severity", "category", "file", "startLine",
                                             "endLine", "suggestion_patch_diff"} :
                                        Get(task, k) = Get(findings[i], k)
                     /\ n = 0 => o.writes = 0 /\ o.result = "no_findings" /\ tasks' = tasks]_vars

\* the tasks of tks that are linked to review rid
LinkedTo(tks, rid) == {id \in DOMAIN tks : Get(tks[id], "source_review_id") = rid}

\* tks holds one task per finding of review rid, as a first conversion leaves it
ConvertedOnce(tks, rvs, rid) ==
    /\ Cardinality(LinkedTo(tks, rid)) = Len(rvs[rid].findings)
    /\ \A i \in 1..Len(rvs[rid].findings) :
         \E id \in LinkedTo(tks, rid) : tks[id].source_finding_index = i - 1

\* C9: conversion is not idempotent: converting a review with n findings a second
\* time leaves 2n stored tasks of it with distinct identifiers, two for each finding
\* index, and the tasks of the first conversion as they were.
C9_ConvertTwiceDuplicates ==
    [][\A rid \in DOMAIN reviews :
         \A o \in task_from_review(tasks, reviews, now, rid) :
             (ConvertedOnce(tasks, reviews, rid) /\ IsCall(o)) =>
                 LET n == Len(reviews[rid].findings)
                 IN  /\ Cardinality(LinkedTo(tasks', rid)) = 2 * n
                     /\ \A i \in 1..n :
                          Cardinality({id \in LinkedTo(tasks', rid) :
                                         tasks'[id].source_finding_index = i - 1}) = 2
                     /\ \A id \in LinkedTo(tasks, rid) :
                          id \in DOMAIN tasks' /\ tasks'[id] = tasks[id]]_vars

\* records a and b have the same value at every member (an absent member is undefined)
SameValues(a, b) == \A k \in (DOMAIN a) \cup (DOMAIN b) : Get(a, k) = Get(b, k)

\* C10: Read after Create round-trips: the record read under the identifier Create
\* returned equals the record Create returned, which is the caller's fields plus the
\* assigned id and created_at (and updated_at for a task).
C10_ReadAfterCreate ==
    /\ \A input \in TaskCreateInputs :
         \A o \in task_create(tasks, reviews, now, input) :
             LET created == o.ret[1]
             IN  /\ DOMAIN JSONstringify(created)
                      = (DOMAIN input) \cup {"id", "created_at", "updated_at", "status"}
                 /\ \A k \in DOMAIN input : Get(created, k) = input[k]
                 /\ \A g \in task_get(o.tasks, o.reviews, o.now, created.id) :
                      /\ g.result = "ok"
                      /\ SameValues(g.ret[1], created)
    /\ \A input \in ReviewSaveInputs :
         \A o \in review_save(tasks, reviews, now, input) :
             LET created == o.ret[1]
             IN  /\ DOMAIN created = (DOMAIN input) \cup {"id", "created_at"}
                 /\ \A k \in DOMAIN input : created[k] = input[k]
                 /\ \A g \in review_get(o.tasks, o.reviews, o.now, created.id) :
                      /\ g.result = "ok"
                      /\ SameValues(g.ret[1], created)

\* a task made without its optional fields and a review with two findings are stored,
\* and reading either gives the stored record
C10_Witness ==
    /\ \E id \in DOMAIN tasks :
         /\ "category" \notin DOMAIN tasks[id]
         /\ \E g \in task_get(tasks, reviews, now, id) : g.ret = <<tasks[id]>>
    /\ \E rid \in DOMAIN reviews :
         /\ Len(reviews[rid].findings) >= 2
         /\ \E g \in review_get(tasks, reviews, now, rid) : g.ret = <<reviews[rid]>>

\* C11: after a direct status update to s of a stored task, a Read of it gives
\* status s and an updated_at strictly greater than the one the record had before.
C11_UpdateRefreshesStrictly ==
    [][\A id \in DOMAIN tasks : \A status \in TaskStatus :
         \A o \in task_update_status(tasks, reviews, now, id, status) :
             IsCall(o) =>
                 \A g \in task_get(tasks', reviews', now', id) :
                     /\ g.result = "ok"
                     /\ g.ret[1].status = status
                     /\ g.ret[1].updated_at > tasks[id].updated_at]_vars

\* C12: Execute, Complete and a direct status update leave id and created_at of a
\* stored task as they are (the id under which it was created), and a call of them
\* that rewrites the record sets updated_at to the clock reading of that call, also
\* when the status it writes is the one the record had.
C12_IdCreatedAtKeptUpdatedAtFresh ==
    \A id \in DOMAIN tasks :
        /\ tasks[id].id = id
        /\ \A o \in task_execute(tasks, reviews, now, id)
                    \cup UNION {task_complete(tasks, reviews, now, id, note)
                                 : note \in VerificationNotes}
                    \cup UNION {task_update_status(tasks, reviews, now, id, status)
                                 : status \in TaskStatus} :
              /\ id \in DOMAIN o.tasks
              /\ o.tasks[id].id = tasks[id].id
              /\ o.tasks[id].created_at = tasks[id].created_at
              /\ o.writes > 0 =>
                     /\ o.tasks[id].updated_at = o.now
                     /\ now <= o.tasks[id].updated_at

\* a task rewritten since its creation (it is completed), on which a direct update to
\* the status it already has is a rewrite with a later updated_at
C12_Witness ==
    \E id \in DOMAIN tasks :
        /\ tasks[id].status = "completed"
        /\ "completed_at" \in DOMAIN tasks[id]
        /\ \E o \in task_update_status(tasks, reviews, now, id, tasks[id].status) :
              /\ o.tasks[id].updated_at > tasks[id].updated_at
              /\ o.tasks[id].created_at = tasks[id].created_at

\* C13: a List with a status filter s and a limit L >= 1 returns at most L records,
\* each of status s.
C13_ListFilteredAndCapped ==
    \A status \in TaskStatus : \A limit \in 1..MaxLimit :
        \A o \in task_list(tasks, reviews, now, status, limit) :
            /\ Len(o.ret) <= limit
            /\ \A i \in 1..Len(o.ret) : o.ret[i].status = status

\* more tasks of one status are stored than the limit: the List returns as many as
\* the limit, of that status
C13_Witness ==
    \E status \in TaskStatus : \E limit \in 1..MaxLimit :
        /\ Cardinality({id \in DOMAIN tasks : tasks[id].status = status}) > limit
        /\ \E o \in task_list(tasks, reviews, now, status, limit) :
              /\ Len(o.ret) = limit
              /\ o.ret[1].status = status

\* the records a List of store tks returns, for a status filter (or none) and a limit
Listed(tks, rvs, t, status, limit) ==
    UNION {{o.ret[i] : i \in 1..Len(o.ret)} : o \in task_list(tks, rvs, t, status, limit)}

\* C14: Delete of a stored task removes it and nothing else: a Read of it then fails
\* with NotFound, no List returns it, the other tasks are as before, and a second
\* Delete fails with NotFound; so does a Delete of an identifier that is not stored.
C14_DeleteRemovesOnce ==
    /\ \A id \in DOMAIN tasks :
         \A o \in task_delete(tasks, reviews, now, id) :
             /\ o.result = "ok"
             /\ id \notin DOMAIN o.tasks
             /\ OthersKept(tasks, o.tasks, id)
             /\ \A g \in task_get(o.tasks, o.reviews, o.now, id) : g.result = "ENOENT"
             /\ \A status \in TaskStatus \cup {NoStatus} : \A limit \in 1..MaxLimit :
                  LET listed == Listed(o.tasks, o.reviews, o.now, status, limit)
                  IN  /\ \A r \in listed : r.id # id
                      /\ listed \subseteq {o.tasks[i] : i \in DOMAIN o.tasks}
             /\ \A d \in task_delete(o.tasks, o.reviews, o.now, id) :
                  d.result = "ENOENT" /\ d.tasks = o.tasks
    /\ \A id \in TaskIds \ DOMAIN tasks :
         \A o \in task_delete(tasks, reviews, now, id) :
             o.result = "ENOENT" /\ o.tasks = tasks

\* two pending tasks are stored: deleting the newer one leaves a List of the pending
\* tasks that returns exactly the older one
C14_Witness ==
    \E a \in DOMAIN tasks : \E b \in DOMAIN tasks :
        /\ localeCompare(a, b) > 0
        /\ tasks[a].status = "pending"
        /\ tasks[b].status = "pending"
        /\ \E o \in task_delete(tasks, reviews, now, a) :
              Listed(o.tasks, o.reviews, o.now, "pending", MaxLimit) = {tasks[b]}

\* C15: Read, Execute, Complete, a direct status update and Delete of an identifier
\* with no stored record fail with NotFound and write nothing: the store is as before
\* and has no record under that identifier.
C15_AbsentIdNotFound ==
    \A id \in TaskIds \ DOMAIN tasks :
        \A o \in task_get(tasks, reviews, now, id)
                 \cup task_execute(tasks, reviews, now, id)
                 \cup UNION {task_complete(tasks, reviews, now, id, note)
                              : note \in VerificationNotes}
                 \cup UNION {task_update_status(tasks, reviews, now, id, status)
                              : status \in TaskStatus}
                 \cup task_delete(tasks, reviews, now, id) :
            /\ o.result = "ENOENT"
            /\ o.writes = 0
            /\ o.tasks = tasks
            /\ o.reviews = reviews
            /\ id \notin DOMAIN o.tasks

\* a store that holds a task while another identifier that was handed out before is
\* absent (its task was deleted, or never made): the calls on it answer NotFound
C15_Witness ==
    /\ tasks # <<>>
    /\ written >= 2
    /\ \E id \in TaskIds \ DOMAIN tasks :
         /\ id[2] <= now
         /\ \E o \in task_update_status(tasks, reviews, now, id, "completed") :
               o.result = "ENOENT"

\* C16: identifiers are unique: a Create of a task or of a review returns an identifier
\* under which nothing is stored yet, so it overwrites no record and its collection
\* grows by exactly one record.
C16_CreateReturnsFreshId ==
    [][/\ \A input \in TaskCreateInputs :
            \A o \in task_create(tasks, reviews, now, input) :
                IsCall(o) =>
                    /\ o.ret[1].id \notin DOMAIN tasks
                    /\ Cardinality(DOMAIN tasks') = Cardinality(DOMAIN tasks) + 1
       /\ \A input \in ReviewSaveInputs :
            \A o \in review_save(tasks, reviews, now, input) :
                IsCall(o) =>
                    /\ o.ret[1].id \notin DOMAIN reviews
                    /\ Cardinality(DOMAIN reviews') = Cardinality(DOMAIN reviews) + 1]_vars

\* call c is an Update: a read of the stored record followed by a full rewrite
IsUpdate(c) == c.op \in {"task.execute", "task.complete", "task.update_status"}

\* step o of call c is the completion of its write
CompletesWrite(c, o) ==
    /\ c.pc \in {"writeFile", "write"}
    /\ o.call.pc # "write"
    /\ o.result # "EIO"

\* C17: when Updates of one task overlap, the write that completes last wins as a
\* whole: whenever the write of an Update completes, the file holds exactly the
\* record that Update wrote (the merge of its own read with its own fields), never a
\* mixture with what another writer wrote.
C17_LastWriteWinsWhole ==
    [][\A i \in 1..MaxCalls : \A o \in callStep(calls[i], tasks, now) :
         (IsStep(i, o) /\ IsUpdate(calls[i]) /\ CompletesWrite(calls[i], o)) =>
             tasks'[calls[i].id] = calls[i].text]_vars

\* C18: writes are atomic for a reader: a Read that runs while a Create or an Update
\* is in flight gets the complete record or NotFound, never an empty or partly
\* written file; and when a write fails a Read still gets the complete record that was
\* stored (or NotFound).
C18_WritesAtomicForReaders ==
    [][\A i \in 1..MaxCalls : \A o \in callStep(calls[i], tasks, now) :
         IsStep(i, o) =>
             /\ calls[i].op = "task.get" => o.result \in {"ok", "ENOENT"}
             /\ o.result = "EIO" => readResult(tasks', calls[i].id) \in {"ok", "ENOENT"}]_vars

\* C20: completed is terminal for Execute and Complete under every interleaving: no
\* step of an Execute or a Complete changes the status or the completed_at of a task
\* that is stored as completed, also when the call read the task before it was.
C20_CompletedTerminalUnderInterleaving ==
    [][\A i \in 1..MaxCalls : \A o \in callStep(calls[i], tasks, now) :
         LET id == calls[i].id
         IN  (/\ IsStep(i, o)
              /\ calls[i].op \in {"task.execute", "task.complete"}
              /\ readResult(tasks, id) = "ok"
              /\ tasks[id].status = "completed"
              /\ readResult(tasks', id) = "ok") =>
                 /\ tasks'[id].status = "completed"
                 /\ Get(tasks'[id], "completed_at") = Get(tasks[id], "completed_at")]_vars

\* the scan of List(status, limit) over the task files gets as far as the file of id:
\* fewer than limit records that pass the filter sort before it
ReachedByTaskScan(id, status, limit) ==
    Cardinality({j \in DOMAIN tasks :
                   /\ localeCompare(j, id) > 0
                   /\ IsJSON(tasks[j])
                   /\ status = NoStatus \/ tasks[j].status = status}) < limit

\* the scan of a List of reviews with this limit gets as far as the file of id
ReachedByReviewScan(id, limit) ==
    Cardinality({j \in DOMAIN reviews : localeCompare(j, id) > 0}) < limit

Matching(tks, status) ==
    {id \in DOMAIN tks : status = NoStatus \/ tks[id].status = status}

\* the k-th newest of the identifiers in ids: k - 1 of them sort after it
Newest(ids, k) ==
    CHOOSE id \in ids : Cardinality({j \in ids : localeCompare(j, id) > 0}) = k - 1

\* C23: for every status filter (or none) and every limit L >= 1, a List returns
\* exactly the first L (all, if there are fewer) of the stored tasks that pass the
\* filter, in descending order of identifier: the filter comes before the truncation.
C23_ListIsPrefixOfFilteredSorted ==
    \A status \in TaskStatus \cup {NoStatus} : \A limit \in 1..MaxLimit :
        \A o \in task_list(tasks, reviews, now, status, limit) :
            LET ids == Matching(tasks, status)
                n == IF Cardinality(ids) < limit THEN Cardinality(ids) ELSE limit
            IN  /\ Len(o.ret) = n
                /\ \A k \in 1..n : o.ret[k] = tasks[Newest(ids, k)]

\* the newest stored task does not pass the filter and an older one does: a List of
\* limit 1 returns the older one
C23_Witness ==
    \E a \in DOMAIN tasks : \E b \in DOMAIN tasks :
        /\ \A j \in DOMAIN tasks : localeCompare(j, a) <= 0
        /\ tasks[a].status # tasks[b].status
        /\ \E o \in task_list(tasks, reviews, now, tasks[b].status, 1) :
              o.ret = <<tasks[b]>>

\* the number of stored tasks of status st
CountOf(tks, st) == Cardinality({id \in DOMAIN tks : tks[id].status = st})

\* C26: Stats is computed from the store at each call and persists nothing: its total
\* is the number of stored tasks (no list limit caps it), each per-status count is
\* the number of stored tasks of that status, and the total is the sum of the counts.
C26_StatsCountTheStore ==
    \A o \in task_stats(tasks, reviews, now) :
        /\ o.result = "ok"
        /\ o.tasks = tasks /\ o.reviews = reviews /\ o.writes = 0
        /\ LET stats == o.ret[1]
           IN  /\ stats.total = Cardinality(DOMAIN tasks)
               /\ \A st \in TaskStatus : stats[st] = CountOf(tasks, st)
               /\ stats.total = stats.pending + stats.in_progress
                                  + stats.completed + stats.cancelled

\* more tasks are stored than the largest limit of a List: Stats counts them all
C26_Witness ==
    /\ Cardinality(DOMAIN tasks) > MaxLimit
    /\ \E o \in task_stats(tasks, reviews, now) :
          /\ o.ret[1].total = Cardinality(DOMAIN tasks)
          /\ o.ret[1].pending > MaxLimit

\* C27: the read-only operations, Read with its rendering, List and Stats, leave
\* every stored record as it was, updated_at included: they write nothing, and a
\* Read after them renders the same report of the same record.
C27_ReadsLeaveStoreUnchanged ==
    LET Kept(o) == /\ o.tasks = tasks
                   /\ o.reviews = reviews
                   /\ o.writes = 0
    IN  /\ \A id \in TaskIds :
             \A o \in task_get(tasks, reviews, now, id) :
                 /\ Kept(o)
                 /\ id \in DOMAIN tasks =>
                       /\ o.ret = <<tasks[id]>>
                       /\ \A g \in task_get(o.tasks, o.reviews, o.now, id) :
                             /\ g.ret = o.ret
                             /\ taskToMarkdown(g.ret[1]) = taskToMarkdown(tasks[id])
        /\ \A status \in TaskStatus \cup {NoStatus} : \A limit \in 1..MaxLimit :
             \A o \in task_list(tasks, reviews, now, status, limit) : Kept(o)
        /\ \A o \in task_stats(tasks, reviews, now) : Kept(o)

\* a task updated after its creation is stored: a Read returns it with the
\* updated_at it has, later than its created_at, and a List returns it too
C27_Witness ==
    \E id \in DOMAIN tasks :
        /\ tasks[id].updated_at > tasks[id].created_at
        /\ \E o \in task_get(tasks, reviews, now, id) :
              /\ o.result = "ok"
              /\ o.tasks[id].updated_at = tasks[id].updated_at
        /\ tasks[id] \in Listed(tasks, reviews, now, NoStatus, MaxLimit)

\* the task is stored as completed without a completed_at
Unstamped(tks, id) ==
    /\ id \in DOMAIN tks
    /\ tks[id].status = "completed"
    /\ "completed_at" \notin DOMAIN tks[id]

\* C24 as claimed: in every state reachable through Create, the Converter, Execute,
\* Complete, direct status update and Delete, every stored task whose status is
\* completed has a completed_at.
C24_CompletedHasCompletedAt ==
    \A id \in DOMAIN tasks : ~Unstamped(tasks, id)

\* the outcomes of Create, the Converter, Execute, Complete and Delete
OutcomesButStatusUpdate ==
    UNION {
      UNION {task_create(tasks, reviews, now, input) : input \in TaskCreateInputs},
      UNION {task_from_review(tasks, reviews, now, id) : id \in ReviewIds},
      UNION {task_execute(tasks, reviews, now, id) \cup
             task_delete(tasks, reviews, now, id) : id \in TaskIds},
      UNION {task_complete(tasks, reviews, now, id, note)
             : id \in TaskIds, note \in VerificationNotes} }

\* C24 as amended: a stored task is completed without a completed_at only by a
\* direct status update to completed of a task that had no completed_at: Create,
\* the Converter, Execute, Complete and Delete leave no task so that was not so
\* before, and a direct status update leaves none that had a completed_at or is
\* set to another status.
C24_UnstampedOnlyByStatusUpdate ==
    /\ \A o \in OutcomesButStatusUpdate : \A id \in DOMAIN o.tasks :
          Unstamped(o.tasks, id) => Unstamped(tasks, id)
    /\ \A id \in DOMAIN tasks : \A status \in TaskStatus :
          \A o \in task_update_status(tasks, reviews, now, id, status) :
              /\ \A j \in DOMAIN o.tasks : Unstamped(o.tasks, j) /\ j # id => Unstamped(tasks, j)
              /\ Unstamped(o.tasks, id) =>
                    status = "completed" /\ "completed_at" \notin DOMAIN tasks[id]

\* Complete has completed a task made by the Converter: it has a completed_at
C24_Witness ==
    \E id \in DOMAIN tasks :
        /\ tasks[id].status = "completed"
        /\ "completed_at" \in DOMAIN tasks[id]
        /\ "source_review_id" \in DOMAIN tasks[id]

\* the task has completion metadata
HasCompletionMetadata(task) ==
    "completed_at" \in DOMAIN task \/ "verification_note" \in DOMAIN task

\* C25: a task whose status has never been completed has neither completed_at nor
\* verification_note: a step leaves a task with completion metadata only if it
\* leaves it completed or the task had that metadata before the step (so Create
\* and the Converter start a task without them, and Execute and a direct status
\* update never set them).
C25_NoMetadataBeforeCompleted ==
    [][\A id \in DOMAIN tasks' :
          HasCompletionMetadata(tasks'[id]) =>
              \/ tasks'[id].status = "completed"
              \/ /\ id \in DOMAIN tasks
                 /\ \A k \in {"completed_at", "verification_note"} :
                       k \in DOMAIN tasks'[id] =>
                           k \in DOMAIN tasks[id] /\ tasks[id][k] = tasks'[id][k]]_vars

\* a task completed with a note has been set back to another status and keeps its
\* completion metadata, next to nothing that was never completed having any
C25_Witness ==
    \E id \in DOMAIN tasks :
        /\ tasks[id].status # "completed"
        /\ "completed_at" \in DOMAIN tasks[id]
        /\ "verification_note" \in DOMAIN tasks[id]

\* every List result that holds the tasks of identifiers a and b holds a's first
ListedBefore(a, b) ==
    \A status \in TaskStatus \cup {NoStatus} : \A limit \in 1..MaxLimit :
        \A o \in task_list(tasks, reviews, now, status, limit) :
            \A i \in 1..Len(o.ret) : \A j \in 1..Len(o.ret) :
                o.ret[i].id = a /\ o.ret[j].id = b => i < j

\* C29 as claimed: if task A is created at a strictly later clock millisecond than
\* task B (created_at is the time of creation the record carries), A's identifier
\* sorts after B's and A comes before B in every List result that holds both,
\* whatever their random suffixes.
C29_LaterCreatedAtListedFirst ==
    \A a \in DOMAIN tasks : \A b \in DOMAIN tasks :
        tasks[a].created_at > tasks[b].created_at =>
            localeCompare(a, b) > 0 /\ ListedBefore(a, b)

\* C29 as amended: if the millisecond in A's identifier (the clock reading of
\* newTaskId) is strictly later than the one in B's, A's identifier sorts after
\* B's and A comes before B in every List result that holds both, whatever their
\* random suffixes.
C29_LaterIdTimeListedFirst ==
    \A a \in DOMAIN tasks : \A b \in DOMAIN tasks :
        a[2] > b[2] => localeCompare(a, b) > 0 /\ ListedBefore(a, b)

\* A's identifier has the later millisecond and the suffix that sorts first, and a
\* List returns A, then B
C29_Witness ==
    \E a \in DOMAIN tasks : \E b \in DOMAIN tasks :
        /\ a[2] > b[2]
        /\ SuffixRank(a[3]) < SuffixRank(b[3])
        /\ \E o \in task_list(tasks, reviews, now, NoStatus, MaxLimit) :
              Len(o.ret) = 2 /\ o.ret[1].id = a /\ o.ret[2].id = b

\* the identifiers of the reviews stored in rvs
SavedReviews(rvs) == {f \in DOMAIN rvs : IsJsonName(f)}

\* the outcomes of the operations of the core other than saving a review, called
\* with the identifiers of reviews and tasks
OutcomesOnRecords ==
    UNION {
      UNION {review_get(tasks, reviews, now, id) \cup
             review_export_markdown(tasks, reviews, now, id) \cup
             task_from_review(tasks, reviews, now, id) : id \in ReviewIds},
      UNION {review_list(tasks, reviews, now, limit) : limit \in 1..MaxLimit},
      UNION {task_create(tasks, reviews, now, input) : input \in TaskCreateInputs},
      UNION {task_get(tasks, reviews, now, id) \cup
             task_execute(tasks, reviews, now, id) \cup
             task_verify(tasks, reviews, now, id) \cup
             task_delete(tasks, reviews, now, id) : id \in TaskIds},
      UNION {task_complete(tasks, reviews, now, id, note)
             : id \in TaskIds, note \in VerificationNotes},
      UNION {task_update_status(tasks, reviews, now, id, status)
             : id \in TaskIds, status \in TaskStatus},
      UNION {task_list(tasks, reviews, now, status, limit)
             : status \in TaskStatus \cup {NoStatus}, limit \in 1..MaxLimit},
      task_stats(tasks, reviews, now) }

\* the outcomes of the task tools called with the path of a review's file as id
OutcomesOnPaths ==
    UNION {
      UNION {task_delete_reviewPath(tasks, reviews, now, id) : id \in ReviewIds},
      UNION {task_update_status_reviewPath(tasks, reviews, now, id, status)
             : id \in ReviewIds, status \in TaskStatus} }

\* the saved reviews are after outcome o what they are now: each is stored with the
\* same content, a Read returns the same findings in the same order, and the
\* reviews listed are the same
ReviewsKept(o) ==
    /\ SavedReviews(o.reviews) = SavedReviews(reviews)
    /\ \A id \in SavedReviews(reviews) :
          /\ o.reviews[id] = reviews[id]
          /\ \A g \in review_get(o.tasks, o.reviews, o.now, id) :
                g.result = "ok" /\ g.ret[1].findings = reviews[id].findings
    /\ \A limit \in 1..MaxLimit : listReviews(o.reviews, limit) = listReviews(reviews, limit)

\* C28: after a Review is saved, no operation of the core (the Converter, any task
\* operation, review read or list, the Markdown export) changes its stored content
\* or removes it: a later Read returns the same findings in the same order and the
\* List of reviews returns the same reviews.
C28_SavedReviewKept ==
    \A o \in OutcomesOnRecords \cup OutcomesOnPaths : ReviewsKept(o)

\* C30: within one server process with DATA_DIR unset, getDataDir returns the same
\* directory to every tool call, so a task created by one call is found by a later
\* Read, also when the lookup of the MCP roots fills cachedRootsPath between the
\* two calls: every task a call has stored is read by task.get now.
C30_CreatedTaskFoundLater ==
    \A id \in (DOMAIN tasks) \cup (DOMAIN rootsTasks) :
        \A o \in task_get(tasksIn(getDataDir(cachedRootsPath)), reviews, now, id) :
            o.result = "ok"

\* C21: a List that runs while a Create or a Delete is in flight completes and
\* returns a result with or without the record: no step of a List fails because a
\* file its directory enumeration named is gone when it is read, and while every
\* stored file holds a whole record every step of a List goes on or answers.
C21_ListSurvivesConcurrentDelete ==
    [][\A i \in 1..MaxCalls : \A o \in callStep(calls[i], tasks, now) :
         (IsStep(i, o) /\ calls[i].op = "task.list") =>
             /\ o.result # "ENOENT"
             /\ (\A f \in DOMAIN tasks : IsJSON(tasks[f])) => o.result \in {"await", "ok"}]_vars

\* C22: once Delete(id) has removed a task no record with identifier id exists in
\* any later state, also when an Update had read the record before the delete and
\* writes after it: no step of an Update of an identifier that has no file leaves
\* a file of that identifier.
C22_DeletedStaysDeleted ==
    [][\A i \in 1..MaxCalls : \A o \in callStep(calls[i], tasks, now) :
         (IsStep(i, o) /\ IsUpdate(calls[i]) /\ calls[i].id \notin DOMAIN tasks) =>
             calls[i].id \notin DOMAIN tasks']_vars

====
